---- MODULE Spec2Model ----
(***************************************************************************)
(* The voting and ranking core of the concert application (src/app.py):    *)
(* the two relations `concerts` and `votes` of the PostgreSQL store and    *)
(* the five HTTP handlers that read and write them.  Every handler opens   *)
(* its own connection, runs its statements and answers; one action below   *)
(* is one whole request, from the parsing of its input to its response.    *)
(***************************************************************************)
EXTENDS Integers, Sequences, FiniteSets, TLC

\* ---------------------------------------------------------------- bounds
\* The concerts relation holds between 1 and MaxConcerts rows.
MaxConcerts == 2
\* At most MaxVotes rows are ever inserted into the votes relation.
MaxVotes == 2

\* The number of callers that run recordVote at the same time.
NumCallers == 2

\* initialize_concerts is run at most MaxRuns times.
MaxRuns == 4

\* The number of entries of concert_data in initialize_concerts.
NumSeedConcerts == 6

\* A CSV file and a scraped list hold at most MaxRows concerts.
MaxRows == 2

\* An upload script is run at most MaxUploads times.
MaxUploads == 2

VARIABLES
    concerts,      \* the concerts relation: a set of rows
    votes,         \* the votes relation: a set of rows
    votes_id_seq,  \* last value handed out by the serial sequence of votes.id
    db_clock,      \* the store's clock, read by the created_at default
    response,      \* the last HTTP response, with the request it answers
    fault,         \* the storage call that raised during the last request
    conn,          \* the connection of the last request, as it answered
    calls,         \* the recordVote calls of the concurrent callers
    concerts_id_seq, \* last value handed out by the serial sequence of concerts.id
    boot,          \* the initialize_concerts runs of the starting servers
    csv,           \* the CSV upload of dataUpload.py
    scraper        \* the upload of eventbrite_scraper.py

\* The state of the programs that load the concerts relation.
jobs == <<concerts_id_seq, boot, csv, scraper>>

vars == <<concerts, votes, votes_id_seq, db_clock, response, fault, conn, calls, jobs>>

\* ------------------------------------------------------------ the store
\* A row of concerts: id and the seven text columns, whose values every
\* handler passes through untouched.
ConcertRow(i) ==
    [id |-> i, title |-> <<"title", i>>, date |-> <<"date", i>>,
     venue |-> <<"venue", i>>, price |-> <<"price", i>>,
     organizer |-> <<"organizer", i>>, description |-> <<"description", i>>,
     image_url |-> <<"image", i>>]

ConcertIds == {c.id : c \in concerts}

\* The vote-type tags the handler accepts.
ValidVoteTypes == {"excited", "interested"}

\* ------------------------------------------------- requests of POST /vote
\* A JSON value sent as concertId: an integer, a string of digits, another
\* string, or nothing.  A JSON value sent as voteType: a string or nothing.
IntInputs == (1..MaxConcerts) \cup {999}
JInt(n)    == [kind |-> "int", num |-> n, str |-> ""]
JNumStr(n) == [kind |-> "numstr", num |-> n, str |-> ""]
JStr(s)    == [kind |-> "str", num |-> 0, str |-> s]
JAbsent    == [kind |-> "absent", num |-> 0, str |-> ""]

ConcertIdInputs ==
    {JInt(n) : n \in IntInputs} \cup {JNumStr(n) : n \in IntInputs}
        \cup {JStr("abc"), JAbsent}
VoteTypeInputs == {JStr(s) : s \in ValidVoteTypes \cup {"loved"}} \cup {JAbsent}

\* The request bodies: no JSON body at all, or a JSON object.
NoBody == [json |-> FALSE, concertId |-> JAbsent, voteType |-> JAbsent]
VoteBodies ==
    {NoBody} \cup
    {[json |-> TRUE, concertId |-> c, voteType |-> t] :
        c \in ConcertIdInputs, t \in VoteTypeInputs}

\* InsertVote(**data): pydantic takes an int or a string of digits for
\* concertId: int and a string for voteType: str, and raises
\* ValidationError for a missing field or a non-numeric concertId.
InsertVoteValid(body) ==
    /\ body.concertId.kind \in {"int", "numstr"}
    /\ body.voteType.kind = "str"

InsertVote(body) ==
    [concertId |-> body.concertId.num, voteType |-> body.voteType.str]

\* SELECT id FROM concerts WHERE id = %s ; fetchone()
SelectConcertId(concert_id) == {c.id : c \in {r \in concerts : r.id = concert_id}}

\* The existence check left out: every concertId passes.
ConcertNotFound_Skipped(concert_id) == FALSE

\* `if not concert`
ConcertNotFound(concert_id) == SelectConcertId(concert_id) = {}

\* The vote-type check rejecting only the empty string.
InvalidVoteType_EmptyOnly(vote_type) == vote_type = ""

\* `vote_data.voteType not in ['excited', 'interested']`
InvalidVoteType(vote_type) == vote_type \notin ValidVoteTypes

\* The id computed from the stored rows instead of drawn from the sequence.
InsertedVote_FromStoredRows(concert_id, vote_type) ==
    [id |-> Cardinality(votes) + 1, concert_id |-> concert_id,
     vote_type |-> vote_type, created_at |-> db_clock + 1]

\* INSERT INTO votes (concert_id, vote_type) ... RETURNING: the row the store
\* builds, id from the serial sequence and created_at from the clock.
InsertedVote(concert_id, vote_type) ==
    [id |-> votes_id_seq + 1, concert_id |-> concert_id,
     vote_type |-> vote_type, created_at |-> db_clock + 1]

\* The insert written as an upsert on (concert_id, vote_type).
InsertInto_Replacing(rows, row) ==
    {w \in rows : ~(w.concert_id = row.concert_id /\ w.vote_type = row.vote_type)}
        \cup {row}

\* INSERT INTO votes: the relation with the new row added.
InsertInto(rows, row) == rows \cup {row}

\* datetime.isoformat()
IsoFormat(t) == <<"iso", t>>

\* The JSON built with a slipped tuple index: vote[0] as concertId.
VoteJson_WrongIndex(vote) ==
    [id |-> vote.id, concertId |-> vote.id,
     voteType |-> vote.vote_type, createdAt |-> IsoFormat(vote.created_at)]

\* The JSON of the inserted vote.
VoteJson(vote) ==
    [id |-> vote.id, concertId |-> vote.concert_id,
     voteType |-> vote.vote_type, createdAt |-> IsoFormat(vote.created_at)]

Respond(op, req, status, body) ==
    response' = [op |-> op, req |-> req, status |-> status, body |-> body]

ErrorJson(msg) == [error |-> msg]

\* A JSON array as a response body (a JSON object is a record).
JsonArray(seq) == [array |-> seq]

\* The handler with its two checks in the other order: vote type first.
SubmitVote_TypeFirst(body) ==
    /\ body \in VoteBodies
    /\ IF ~body.json
         THEN /\ Respond("vote", body, 500, ErrorJson("Failed to submit vote"))
              /\ UNCHANGED <<concerts, votes, votes_id_seq, db_clock>>
       ELSE IF ~InsertVoteValid(body)
         THEN /\ Respond("vote", body, 400, ErrorJson("Invalid vote data"))
              /\ UNCHANGED <<concerts, votes, votes_id_seq, db_clock>>
       ELSE LET vote_data == InsertVote(body) IN
            IF InvalidVoteType(vote_data.voteType)
              THEN /\ Respond("vote", body, 400, ErrorJson("Invalid vote type"))
                   /\ UNCHANGED <<concerts, votes, votes_id_seq, db_clock>>
            ELSE IF ConcertNotFound(vote_data.concertId)
              THEN /\ Respond("vote", body, 404, ErrorJson("Concert not found"))
                   /\ UNCHANGED <<concerts, votes, votes_id_seq, db_clock>>
            ELSE LET vote == InsertedVote(vote_data.concertId, vote_data.voteType) IN
                 /\ votes_id_seq < MaxVotes
                 /\ votes' = InsertInto(votes, vote)
                 /\ votes_id_seq' = votes_id_seq + 1
                 /\ db_clock' = db_clock + 1
                 /\ Respond("vote", body, 200, VoteJson(vote))
                 /\ UNCHANGED concerts

\* POST /api/vote
SubmitVote(body) ==
    /\ body \in VoteBodies
    /\ IF ~body.json
         THEN \* get_json() / InsertVote(**data) raise: except Exception
              /\ Respond("vote", body, 500, ErrorJson("Failed to submit vote"))
              /\ UNCHANGED <<concerts, votes, votes_id_seq, db_clock>>
       ELSE IF ~InsertVoteValid(body)
         THEN \* except ValidationError
              /\ Respond("vote", body, 400, ErrorJson("Invalid vote data"))
              /\ UNCHANGED <<concerts, votes, votes_id_seq, db_clock>>
       ELSE LET vote_data == InsertVote(body) IN
            IF ConcertNotFound(vote_data.concertId)
              THEN /\ Respond("vote", body, 404, ErrorJson("Concert not found"))
                   /\ UNCHANGED <<concerts, votes, votes_id_seq, db_clock>>
            ELSE IF InvalidVoteType(vote_data.voteType)
              THEN /\ Respond("vote", body, 400, ErrorJson("Invalid vote type"))
                   /\ UNCHANGED <<concerts, votes, votes_id_seq, db_clock>>
            ELSE LET vote == InsertedVote(vote_data.concertId, vote_data.voteType) IN
                 /\ votes_id_seq < MaxVotes
                 /\ votes' = InsertInto(votes, vote)
                 /\ votes_id_seq' = votes_id_seq + 1
                 /\ db_clock' = db_clock + 1
                 /\ Respond("vote", body, 200, VoteJson(vote))
                 /\ UNCHANGED concerts

\* ------------------------------------------------------ GET /api/vote-stats
\* SELECT concert_id, vote_type, COUNT(*) FROM votes GROUP BY concert_id,
\* vote_type: one row per (concert_id, vote_type) pair that has a vote.
VoteGroups == {<<v.concert_id, v.vote_type>> : v \in votes}

\* COUNT(*) of a grouping by concert_id alone.
GroupCount_PerConcert(concert_id, vote_type) ==
    Cardinality({v \in votes : v.concert_id = concert_id})

GroupCount(concert_id, vote_type) ==
    Cardinality({v \in votes : v.concert_id = concert_id /\ v.vote_type = vote_type})

VoteResults ==
    {[concert_id |-> g[1], vote_type |-> g[2], count |-> GroupCount(g[1], g[2])] :
        g \in VoteGroups}

\* The loop without the {'excited': 0, 'interested': 0} entry: only the
\* types that have a row get a counter.
StatsEntry_NoDefaults(concert_id) ==
    LET rows == {r \in VoteResults : r.concert_id = concert_id}
    IN  [t \in {r.vote_type : r \in rows} |->
            (CHOOSE r \in rows : r.vote_type = t).count]

\* The loop over vote_results: a concert gets an entry at the first of its
\* rows, both counters 0, and each row then sets the counter of its type.
\* No two rows share (concert_id, vote_type), so the order of the rows does
\* not show in the result.
StatsEntry(concert_id) ==
    LET rows == {r \in VoteResults : r.concert_id = concert_id}
        keys == ValidVoteTypes \cup {r.vote_type : r \in rows}
    IN  [t \in keys |->
            IF \E r \in rows : r.vote_type = t
              THEN (CHOOSE r \in rows : r.vote_type = t).count
              ELSE 0]

Stats == [concert_id \in {r.concert_id : r \in VoteResults} |-> StatsEntry(concert_id)]

\* jsonify(stats): the integer keys of the dict become JSON strings.
JsonKey(i) == ToString(i)

StatsJson(stats) ==
    [k \in {JsonKey(i) : i \in DOMAIN stats} |->
        stats[CHOOSE i \in DOMAIN stats : JsonKey(i) = k]]

\* The statistics read and then cleared.
GetVoteStats_Clearing ==
    /\ Respond("vote-stats", NoBody, 200, StatsJson(Stats))
    /\ votes' = {}
    /\ UNCHANGED <<concerts, votes_id_seq, db_clock>>

GetVoteStats ==
    /\ Respond("vote-stats", NoBody, 200, StatsJson(Stats))
    /\ UNCHANGED <<concerts, votes, votes_id_seq, db_clock>>

\* -------------------------------------------------------- GET /api/rankings
RECURSIVE SumOver(_, _)
\* SUM(f) over the rows S of a group.
SumOver(f, S) ==
    IF S = {} THEN 0
    ELSE LET r == CHOOSE x \in S : TRUE IN f[r] + SumOver(f, S \ {r})

\* The join written as an inner join: a concert without votes has no row.
JoinedRows_InnerJoin(c) ==
    {[c |-> c, matched |-> TRUE, vote_id |-> v.id, vote_type |-> v.vote_type] :
        v \in {w \in votes : c.id = w.concert_id}}

\* concerts c LEFT JOIN votes v ON c.id = v.concert_id, the rows of concert
\* c: one per matching vote, or a single row with every v column NULL.
JoinedRows(c) ==
    LET matching == {v \in votes : c.id = v.concert_id}
    IN  IF matching = {}
          THEN {[c |-> c, matched |-> FALSE, vote_id |-> 0, vote_type |-> "NULL"]}
          ELSE {[c |-> c, matched |-> TRUE, vote_id |-> v.id, vote_type |-> v.vote_type] :
                    v \in matching}

LeftJoin == UNION {JoinedRows(c) : c \in concerts}

\* GROUP BY c.id, c.title, ..., c.image_url: one group per concert row that
\* the join kept.
Groups == {j.c : j \in LeftJoin}

\* The excited counter counting every matched vote.
CaseExcited_AnyType(r) == IF r.matched THEN 1 ELSE 0

\* CASE WHEN v.vote_type = 'excited' THEN 1 ELSE 0 END
CaseExcited(r) == IF r.matched /\ r.vote_type = "excited" THEN 1 ELSE 0
\* CASE WHEN v.vote_type = 'interested' THEN 1 ELSE 0 END
CaseInterested(r) == IF r.matched /\ r.vote_type = "interested" THEN 1 ELSE 0
\* COUNT(v.id) counts the rows whose v.id is not NULL
CaseCounted(r) == IF r.matched THEN 1 ELSE 0
\* The score without the weight of 2 for excited.
CaseWeight_Unweighted(r) == IF r.matched THEN 1 ELSE 0

\* CASE WHEN v.vote_type = 'excited' THEN 2 WHEN v.vote_type = 'interested'
\* THEN 1 ELSE 0 END
CaseWeight(r) ==
    IF r.matched /\ r.vote_type = "excited" THEN 2
    ELSE IF r.matched /\ r.vote_type = "interested" THEN 1
    ELSE 0

\* One row of the GROUP BY.  PostgreSQL folds the unquoted aliases to lower
\* case, so these are the keys the RealDictCursor row carries.
RankingRow(c) ==
    LET rows == {j \in LeftJoin : j.c = c} IN
    [id |-> c.id, title |-> c.title, date |-> c.date, venue |-> c.venue,
     price |-> c.price, organizer |-> c.organizer,
     description |-> c.description, imageurl |-> c.image_url,
     excitedvotes    |-> SumOver([r \in rows |-> CaseExcited(r)], rows),
     interestedvotes |-> SumOver([r \in rows |-> CaseInterested(r)], rows),
     totalvotes      |-> SumOver([r \in rows |-> CaseCounted(r)], rows),
     weightedscore   |-> SumOver([r \in rows |-> CaseWeight(r)], rows)]

RankingRows == {RankingRow(c) : c \in Groups}

\* Every sequence that lists each element of S once.
Orderings(S) ==
    {s \in [1..Cardinality(S) -> S] : \A i, j \in DOMAIN s : i # j => s[i] # s[j]}

\* ORDER BY weightedScore without DESC: ascending.
OrderByScoreDesc_Ascending(s) ==
    \A i, j \in DOMAIN s : i < j => s[i].weightedscore <= s[j].weightedscore

\* ORDER BY weightedScore DESC: the key decides the order of rows with
\* different scores; rows with equal scores come in whatever order the
\* executor produces.
OrderByScoreDesc(s) ==
    \A i, j \in DOMAIN s : i < j => s[i].weightedscore >= s[j].weightedscore

\* previousRank taken from the 0-based index.
Ranked_PreviousFromIndex(concert, index) ==
    [id |-> concert.id, title |-> concert.title, date |-> concert.date,
     venue |-> concert.venue, price |-> concert.price,
     organizer |-> concert.organizer, description |-> concert.description,
     imageurl |-> concert.imageurl,
     excitedvotes |-> concert.excitedvotes,
     interestedvotes |-> concert.interestedvotes,
     totalvotes |-> concert.totalvotes,
     weightedscore |-> concert.weightedscore,
     rank |-> index + 1, previousRank |-> index, rankChange |-> 1]

\* The enumerate loop: rank, previousRank and rankChange of the row at index.
Ranked(concert, index) ==
    [id |-> concert.id, title |-> concert.title, date |-> concert.date,
     venue |-> concert.venue, price |-> concert.price,
     organizer |-> concert.organizer, description |-> concert.description,
     imageurl |-> concert.imageurl,
     excitedvotes |-> concert.excitedvotes,
     interestedvotes |-> concert.interestedvotes,
     totalvotes |-> concert.totalvotes,
     weightedscore |-> concert.weightedscore,
     rank |-> index + 1, previousRank |-> index + 1, rankChange |-> 0]

\* index runs from 0 as in enumerate(); TLA+ sequences start at 1.
RankedConcerts(fetched) == [k \in DOMAIN fetched |-> Ranked(fetched[k], k - 1)]

GetRankings ==
    /\ \E fetched \in {s \in Orderings(RankingRows) : OrderByScoreDesc(s)} :
           Respond("rankings", NoBody, 200, JsonArray(RankedConcerts(fetched)))
    /\ UNCHANGED <<concerts, votes, votes_id_seq, db_clock>>

\* -------------------------------------------------------- GET /api/concerts
\* SELECT id, title, date, venue, price, organizer, description, image_url
\* as imageUrl FROM concerts: one row as a dict.  The alias is not quoted,
\* so PostgreSQL folds it to lower case and the key is imageurl.
ConcertJson(c) ==
    [id |-> c.id, title |-> c.title, date |-> c.date, venue |-> c.venue,
     price |-> c.price, organizer |-> c.organizer,
     description |-> c.description, imageurl |-> c.image_url]

\* No ORDER BY: the rows come in whatever order the executor produces.
GetConcerts ==
    /\ \E fetched \in Orderings(concerts) :
           Respond("concerts", NoBody, 200,
                   JsonArray([k \in DOMAIN fetched |-> ConcertJson(fetched[k])]))
    /\ UNCHANGED <<concerts, votes, votes_id_seq, db_clock>>

\* The lookup without its WHERE id = %s.
GetConcertById_AnyRow(concert_id) ==
    /\ LET found == concerts
           req == [json |-> FALSE, concertId |-> JInt(concert_id), voteType |-> JAbsent]
       IN  IF found = {}
             THEN Respond("concert", req, 404, ErrorJson("Concert not found"))
             ELSE Respond("concert", req, 200, ConcertJson(CHOOSE c \in found : TRUE))
    /\ UNCHANGED <<concerts, votes, votes_id_seq, db_clock>>

\* GET /api/concerts/<int:concert_id>
GetConcertById(concert_id) ==
    /\ LET found == {c \in concerts : c.id = concert_id}
           req == [json |-> FALSE, concertId |-> JInt(concert_id), voteType |-> JAbsent]
       IN  IF found = {}
             THEN Respond("concert", req, 404, ErrorJson("Concert not found"))
             ELSE Respond("concert", req, 200, ConcertJson(CHOOSE c \in found : TRUE))
    /\ UNCHANGED <<concerts, votes, votes_id_seq, db_clock>>

\* ------------------------------------------------- storage calls that raise
\* The connection of one request: whether get_db_connection() returned one
\* and whether conn.close() ran before the handler returned.
NotOpened == [opened |-> FALSE, closed |-> FALSE]
Released  == [opened |-> TRUE, closed |-> TRUE]
LeftOpen  == [opened |-> TRUE, closed |-> FALSE]

\* The storage calls of a GET handler and of submit_vote that can raise.
ReadFaults == {"connect", "execute"}
VoteFaults == {"connect", "select", "insert", "commit", "close"}

\* `except Exception` answers without closing: the connection stays as the
\* failing call found it.
ConnAfterFault(at) == IF at = "connect" THEN NotOpened ELSE LeftOpen

\* A handler that ran to its answer with every storage call succeeding.
\* submit_vote opens its connection only after InsertVote(**data) passed, and
\* closes it before each of its answers.
NoFault(opened) ==
    /\ fault' = "none"
    /\ conn' = IF opened THEN Released ELSE NotOpened
    /\ UNCHANGED <<calls, jobs>>

\* GET /api/concerts with get_db_connection() or cur.execute() raising
GetConcertsFault(at) ==
    /\ at \in ReadFaults
    /\ Respond("concerts", NoBody, 500, ErrorJson("Failed to fetch concerts"))
    /\ fault' = at
    /\ conn' = ConnAfterFault(at)
    /\ UNCHANGED <<concerts, votes, votes_id_seq, db_clock, calls, jobs>>

\* GET /api/concerts/<int:concert_id> with a storage call raising
GetConcertByIdFault(concert_id, at) ==
    /\ at \in ReadFaults
    /\ Respond("concert",
               [json |-> FALSE, concertId |-> JInt(concert_id), voteType |-> JAbsent],
               500, ErrorJson("Failed to fetch concert"))
    /\ fault' = at
    /\ conn' = ConnAfterFault(at)
    /\ UNCHANGED <<concerts, votes, votes_id_seq, db_clock, calls, jobs>>

\* GET /api/vote-stats with a storage call raising
GetVoteStatsFault(at) ==
    /\ at \in ReadFaults
    /\ Respond("vote-stats", NoBody, 500, ErrorJson("Failed to fetch vote statistics"))
    /\ fault' = at
    /\ conn' = ConnAfterFault(at)
    /\ UNCHANGED <<concerts, votes, votes_id_seq, db_clock, calls, jobs>>

\* The failure answered as a ranking without rows.
GetRankingsFault_EmptyList(at) ==
    /\ at \in ReadFaults
    /\ Respond("rankings", NoBody, 200, JsonArray(<<>>))
    /\ fault' = at
    /\ conn' = ConnAfterFault(at)
    /\ UNCHANGED <<concerts, votes, votes_id_seq, db_clock, calls, jobs>>

\* GET /api/rankings with a storage call raising
GetRankingsFault(at) ==
    /\ at \in ReadFaults
    /\ Respond("rankings", NoBody, 500, ErrorJson("Failed to fetch rankings"))
    /\ fault' = at
    /\ conn' = ConnAfterFault(at)
    /\ UNCHANGED <<concerts, votes, votes_id_seq, db_clock, calls, jobs>>

\* The failing INSERT attempted a second time, and the second attempt
\* answered.
SubmitVoteFault_Retrying(body, at) ==
    /\ body \in VoteBodies
    /\ at \in VoteFaults
    /\ body.json /\ InsertVoteValid(body)
    /\ fault' = at
    /\ UNCHANGED <<concerts, calls, jobs>>
    /\ LET vote_data == InsertVote(body)
           vote == InsertedVote(vote_data.concertId, vote_data.voteType)
           again == [vote EXCEPT !.id = @ + 1]
       IN  IF at = "insert" /\ ~ConcertNotFound(vote_data.concertId)
                /\ ~InvalidVoteType(vote_data.voteType)
             THEN /\ votes_id_seq + 1 < MaxVotes
                  /\ votes' = InsertInto(votes, again)
                  /\ votes_id_seq' = votes_id_seq + 2
                  /\ db_clock' = db_clock + 1
                  /\ conn' = Released
                  /\ Respond("vote", body, 200, VoteJson(again))
           ELSE /\ at \in {"connect", "select"}
                /\ conn' = ConnAfterFault(at)
                /\ Respond("vote", body, 500, ErrorJson("Failed to submit vote"))
                /\ UNCHANGED <<votes, votes_id_seq, db_clock>>

\* POST /api/vote with a storage call raising.  The body passed InsertVote;
\* the INSERT, the commit and the close are reached only when the concert
\* was found and the vote type is valid.  A failed INSERT may or may not have
\* drawn from the id sequence; a commit that raises may or may not have
\* reached the store; a close that raises comes after the commit.
SubmitVoteFault(body, at) ==
    /\ body \in VoteBodies
    /\ at \in VoteFaults
    /\ body.json /\ InsertVoteValid(body)
    /\ Respond("vote", body, 500, ErrorJson("Failed to submit vote"))
    /\ fault' = at
    /\ conn' = ConnAfterFault(at)
    /\ UNCHANGED <<concerts, calls, jobs>>
    /\ LET vote_data == InsertVote(body)
           vote == InsertedVote(vote_data.concertId, vote_data.voteType)
       IN  IF at \in {"connect", "select"}
             THEN UNCHANGED <<votes, votes_id_seq, db_clock>>
           ELSE /\ ~ConcertNotFound(vote_data.concertId)
                /\ ~InvalidVoteType(vote_data.voteType)
                /\ votes_id_seq < MaxVotes
                /\ IF at = "insert"
                     THEN /\ votes_id_seq' \in {votes_id_seq, votes_id_seq + 1}
                          /\ UNCHANGED <<votes, db_clock>>
                   ELSE /\ votes_id_seq' = votes_id_seq + 1
                        /\ db_clock' = db_clock + 1
                        /\ \E durable \in IF at = "commit" THEN BOOLEAN ELSE {TRUE} :
                              votes' = IF durable THEN InsertInto(votes, vote) ELSE votes

\* The bodies sent to POST /api/vote where storage calls can raise.
FaultVoteBodies ==
    {NoBody} \cup
    {[json |-> TRUE, concertId |-> c, voteType |-> t] :
        c \in {JInt(n) : n \in IntInputs} \cup {JStr("abc")}, t \in VoteTypeInputs}

\* ------------------------------------------ recordVote calls run concurrently
\* Each caller runs submit_vote once, on a connection and a transaction of
\* its own.  Its steps are the statements it sends: the SELECT with the two
\* checks, the INSERT (the row is in its transaction only) and the commit
\* (the row is in the relation), after which it answers.
Callers == 1..NumCallers

NoRow == [id |-> 0, concert_id |-> 0, vote_type |-> "", created_at |-> 0]
Idle == [pc |-> "idle", concertId |-> 0, voteType |-> "", row |-> NoRow, status |-> 0]

\* The bodies the concurrent callers send: they pass InsertVote.
ConcVoteBodies ==
    {[json |-> TRUE, concertId |-> JInt(n), voteType |-> JStr(t)] :
        n \in IntInputs, t \in ValidVoteTypes \cup {"loved"}}

\* lines 170-188: parse, connect, SELECT, and the two checks
ConcBegin(p, body) ==
    /\ calls[p].pc = "idle"
    /\ body \in ConcVoteBodies
    /\ LET vote_data == InsertVote(body)
           sent == [calls[p] EXCEPT !.concertId = vote_data.concertId,
                                    !.voteType = vote_data.voteType]
       IN  IF ConcertNotFound(vote_data.concertId)
             THEN calls' = [calls EXCEPT ![p] = [sent EXCEPT !.pc = "done", !.status = 404]]
           ELSE IF InvalidVoteType(vote_data.voteType)
             THEN calls' = [calls EXCEPT ![p] = [sent EXCEPT !.pc = "done", !.status = 400]]
           ELSE calls' = [calls EXCEPT ![p] = [sent EXCEPT !.pc = "insert"]]
    /\ UNCHANGED <<concerts, votes, votes_id_seq, db_clock, response, fault, conn, jobs>>

\* lines 191-197: INSERT ... RETURNING and fetchone()
ConcInsert(p) ==
    /\ calls[p].pc = "insert"
    /\ calls' = [calls EXCEPT ![p] =
                    [@ EXCEPT !.pc = "commit",
                              !.row = InsertedVote(calls[p].concertId, calls[p].voteType)]]
    /\ votes_id_seq' = votes_id_seq + 1
    /\ db_clock' = db_clock + 1
    /\ UNCHANGED <<concerts, votes, response, fault, conn, jobs>>

\* lines 198-208: commit, close and the answer
ConcCommit(p) ==
    /\ calls[p].pc = "commit"
    /\ votes' = InsertInto(votes, calls[p].row)
    /\ calls' = [calls EXCEPT ![p] = [@ EXCEPT !.pc = "done", !.status = 200]]
    /\ UNCHANGED <<concerts, votes_id_seq, db_clock, response, fault, conn, jobs>>

\* The rows the callers have inserted and not yet committed.
Uncommitted == {calls[p].row : p \in {q \in Callers : calls[q].pc = "commit"}}

\* The ranking with totalVotes counted by a second statement that also sees
\* the rows not yet committed.
ConcRankings_SecondRead ==
    /\ \E fetched \in {s \in Orderings(RankingRows) : OrderByScoreDesc(s)} :
           Respond("rankings", NoBody, 200,
                   JsonArray([k \in DOMAIN fetched |->
                       [RankedConcerts(fetched)[k] EXCEPT !.totalvotes =
                           @ + Cardinality({w \in Uncommitted :
                                               w.concert_id = fetched[k].id})]]))
    /\ UNCHANGED <<concerts, votes, votes_id_seq, db_clock, fault, conn, calls, jobs>>

\* GET /api/rankings while recordVote calls are in flight: its one SELECT
\* reads the committed rows of votes as of one instant.
ConcRankings ==
    /\ GetRankings
    /\ UNCHANGED <<fault, conn, calls, jobs>>

\* ------------------------------------------------------ initialize_concerts
\* A server runs initialize_concerts when it starts, on a connection and a
\* transaction of its own.  Its steps are the statements it sends: the SELECT
\* COUNT(*), the loop of INSERTs (the rows are in its transaction only) and
\* the commit (the rows are in the relation).
Runs == 1..MaxRuns
Seeds == 1..NumSeedConcerts

\* The row the store builds for entry s of concert_data, with the id drawn
\* from the serial sequence.
SeedRow(id, s) == [ConcertRow(100 + s) EXCEPT !.id = id]

NotStarted == [pc |-> "start", count |-> 0, rows |-> {}]

\* The test left out: the seed data is inserted whatever the count.
RelationEmpty_Always(count) == TRUE

\* `if count == 0`
RelationEmpty(count) == count = 0

\* connect, SELECT COUNT(*) FROM concerts, fetchone()
InitCount(p) ==
    /\ boot[p].pc = "start"
    /\ boot' = [boot EXCEPT ![p] =
                   [@ EXCEPT !.pc = "counted", !.count = Cardinality(concerts)]]
    /\ UNCHANGED <<concerts, votes, votes_id_seq, db_clock, response, fault, conn,
                   calls, concerts_id_seq, csv, scraper>>

\* `for data in concert_data`: the INSERTs, each drawing the next id
InitInsert(p) ==
    /\ boot[p].pc = "counted"
    /\ RelationEmpty(boot[p].count)
    /\ boot' = [boot EXCEPT ![p] =
                   [@ EXCEPT !.pc = "inserted",
                             !.rows = {SeedRow(concerts_id_seq + s, s) : s \in Seeds}]]
    /\ concerts_id_seq' = concerts_id_seq + NumSeedConcerts
    /\ UNCHANGED <<concerts, votes, votes_id_seq, db_clock, response, fault, conn,
                   calls, csv, scraper>>

\* conn.commit(), then cur.close() and conn.close()
InitCommit(p) ==
    /\ boot[p].pc = "inserted"
    /\ concerts' = concerts \cup boot[p].rows
    /\ boot' = [boot EXCEPT ![p] = [@ EXCEPT !.pc = "done"]]
    /\ UNCHANGED <<votes, votes_id_seq, db_clock, response, fault, conn,
                   calls, concerts_id_seq, csv, scraper>>

\* count is not 0: cur.close() and conn.close() only
InitSkip(p) ==
    /\ boot[p].pc = "counted"
    /\ ~RelationEmpty(boot[p].count)
    /\ boot' = [boot EXCEPT ![p] = [@ EXCEPT !.pc = "done"]]
    /\ UNCHANGED <<concerts, votes, votes_id_seq, db_clock, response, fault, conn,
                   calls, concerts_id_seq, csv, scraper>>

\* No other run is between its first statement and its close.
OneAtATime(p) == \A q \in Runs \ {p} : boot[q].pc \in {"start", "done"}

\* ------------------------------------------------------------ dataUpload.py
\* The concerts of a CSV file: ConcertData values that differ in title and
\* venue, the two columns insert_concert compares.
CsvData ==
    {[title |-> 1, venue |-> 1], [title |-> 1, venue |-> 2], [title |-> 2, venue |-> 1]}

\* read_csv_file(): the list of valid rows; upload_concerts_from_csv returns
\* at once when it is empty.
CsvFiles == UNION {[1..n -> CsvData] : n \in 1..MaxRows}

CsvIdle == [pc |-> "idle", todo |-> <<>>, successful_inserts |-> 0, before |-> 0, n |-> 0]

\* The row the store builds for concert_data, with the id drawn from the
\* serial sequence.
CsvRow(id, concert_data) ==
    [ConcertRow(0) EXCEPT !.id = id,
                          !.title = <<"title", concert_data.title>>,
                          !.venue = <<"venue", concert_data.venue>>]

\* SELECT id FROM concerts WHERE title = %s AND venue = %s
SelectExisting(concert_data) ==
    {c \in concerts : /\ c.title = <<"title", concert_data.title>>
                      /\ c.venue = <<"venue", concert_data.venue>>}

\* The call of insert_concert that raises, if any: the SELECT, the INSERT,
\* conn.commit(), or the print that follows the commit.
CsvFaults == {"none", "select", "insert", "commit", "print"}

\* read_csv_file(), get_db_connection(), successful_inserts = 0
CsvStart(file) ==
    /\ csv.pc \in {"idle", "done"}
    /\ csv.n < MaxUploads
    /\ file \in CsvFiles
    /\ csv' = [pc |-> "loop", todo |-> file, successful_inserts |-> 0,
               before |-> Cardinality(concerts), n |-> csv.n + 1]
    /\ UNCHANGED <<concerts, votes, votes_id_seq, db_clock, response, fault, conn,
                   calls, concerts_id_seq, boot, scraper>>

\* One pass of `for concert in concerts`: insert_concert(conn, concert) and
\* the count of its True results.  An exception inside insert_concert goes
\* to its except branch, which rolls back and returns False; a commit that
\* raises may or may not have reached the store.
CsvInsertConcert(at) ==
    /\ csv.pc = "loop"
    /\ csv.todo # <<>>
    /\ at \in CsvFaults
    /\ LET concert_data == Head(csv.todo)
           row == CsvRow(concerts_id_seq + 1, concert_data)
           returned(ok) ==
               csv' = [csv EXCEPT !.todo = Tail(@),
                                  !.successful_inserts = IF ok THEN @ + 1 ELSE @]
       IN  IF at = "select"
             THEN /\ returned(FALSE)
                  /\ UNCHANGED <<concerts, concerts_id_seq>>
           ELSE IF SelectExisting(concert_data) # {}
             THEN /\ at = "none"
                  /\ returned(FALSE)
                  /\ UNCHANGED <<concerts, concerts_id_seq>>
           ELSE IF at = "insert"
             THEN /\ returned(FALSE)
                  /\ concerts_id_seq' \in {concerts_id_seq, concerts_id_seq + 1}
                  /\ UNCHANGED concerts
           ELSE /\ returned(at = "none")
                /\ concerts_id_seq' = concerts_id_seq + 1
                /\ \E durable \in IF at = "commit" THEN BOOLEAN ELSE {TRUE} :
                      concerts' = IF durable THEN concerts \cup {row} ELSE concerts
    /\ UNCHANGED <<votes, votes_id_seq, db_clock, response, fault, conn,
                   calls, boot, scraper>>

\* conn.close() and the report of successful_inserts
CsvFinish ==
    /\ csv.pc = "loop"
    /\ csv.todo = <<>>
    /\ csv' = [csv EXCEPT !.pc = "done"]
    /\ UNCHANGED <<concerts, votes, votes_id_seq, db_clock, response, fault, conn,
                   calls, concerts_id_seq, boot, scraper>>

\* ---------------------------------------------------- eventbrite_scraper.py
\* The concerts of a scraped list.
ScrapedData == {1, 2}

ScrapedLists == UNION {[1..n -> ScrapedData] : n \in 0..MaxRows}

ScraperIdle == [pc |-> "idle", todo |-> <<>>, inserted_count |-> 0, tx |-> {},
                before |-> 0, n |-> 0]

\* The row the store builds for a scraped concert: the columns of the seed
\* rows and concert_link, location and event_type.
ScrapedRow(id, k) ==
    [id |-> id, title |-> <<"title", k>>, date |-> <<"date", k>>,
     venue |-> <<"venue", k>>, price |-> <<"price", k>>,
     organizer |-> <<"organizer", k>>, description |-> <<"description", k>>,
     image_url |-> <<"image", k>>, concert_link |-> <<"link", k>>,
     location |-> <<"location", k>>, event_type |-> <<"type", k>>]

\* What cursor.execute(INSERT ...) does: returns, raises
\* psycopg2.IntegrityError, or raises another exception.
InsertOutcomes == {"inserted", "IntegrityError", "Exception"}

\* psycopg2.connect(), conn.cursor(), inserted_count = 0
ScraperStart(list) ==
    /\ scraper.pc \in {"idle", "done"}
    /\ scraper.n < MaxUploads
    /\ list \in ScrapedLists
    /\ scraper' = [pc |-> "loop", todo |-> list, inserted_count |-> 0, tx |-> {},
                   before |-> Cardinality(concerts), n |-> scraper.n + 1]
    /\ UNCHANGED <<concerts, votes, votes_id_seq, db_clock, response, fault, conn,
                   calls, concerts_id_seq, boot, csv>>

\* One pass of `for concert in concerts`.  The INSERT adds the row to the
\* open transaction and inserted_count grows; both except branches call
\* conn.rollback(), which discards every row of the open transaction.
ScraperInsert(outcome) ==
    /\ scraper.pc = "loop"
    /\ scraper.todo # <<>>
    /\ outcome \in InsertOutcomes
    /\ IF outcome = "inserted"
         THEN /\ scraper' = [scraper EXCEPT
                    !.todo = Tail(@),
                    !.tx = @ \cup {ScrapedRow(concerts_id_seq + 1, Head(scraper.todo))},
                    !.inserted_count = @ + 1]
              /\ concerts_id_seq' = concerts_id_seq + 1
       ELSE /\ scraper' = [scraper EXCEPT !.todo = Tail(@), !.tx = {}]
            /\ concerts_id_seq' \in {concerts_id_seq, concerts_id_seq + 1}
    /\ UNCHANGED <<concerts, votes, votes_id_seq, db_clock, response, fault, conn,
                   calls, boot, csv>>

\* conn.commit(), the closes and the report of inserted_count
ScraperCommit ==
    /\ scraper.pc = "loop"
    /\ scraper.todo = <<>>
    /\ concerts' = concerts \cup scraper.tx
    /\ scraper' = [scraper EXCEPT !.pc = "done", !.tx = {}]
    /\ UNCHANGED <<votes, votes_id_seq, db_clock, response, fault, conn,
                   calls, concerts_id_seq, boot, csv>>

\* ------------------------------------------------------- the specifications
Init ==
    /\ concerts \in {{ConcertRow(i) : i \in S} : S \in (SUBSET (1..MaxConcerts)) \ {{}}}
    /\ votes = {}
    /\ votes_id_seq = 0
    /\ db_clock = 0
    /\ response = [op |-> "none", req |-> NoBody, status |-> 0, body |-> ErrorJson("")]
    /\ fault = "none"
    /\ conn = NotOpened
    /\ calls = [p \in Callers |-> Idle]
    /\ concerts_id_seq = MaxConcerts
    /\ boot = [p \in Runs |-> NotStarted]
    /\ csv = CsvIdle
    /\ scraper = ScraperIdle

\* The programs that load the concerts relation about to run: the relation
\* is empty, or holds rows loaded before, no two with the same title and
\* venue.
LoadInit ==
    /\ concerts \in {{ConcertRow(i) : i \in S} : S \in SUBSET (1..MaxConcerts)}
    /\ votes = {}
    /\ votes_id_seq = 0
    /\ db_clock = 0
    /\ response = [op |-> "none", req |-> NoBody, status |-> 0, body |-> ErrorJson("")]
    /\ fault = "none"
    /\ conn = NotOpened
    /\ calls = [p \in Callers |-> Idle]
    /\ concerts_id_seq = MaxConcerts
    /\ boot = [p \in Runs |-> NotStarted]
    /\ csv = CsvIdle
    /\ scraper = ScraperIdle

\* The handlers with a store that answers every call.
Next ==
    \/ (\E body \in VoteBodies : SubmitVote(body)) /\ UNCHANGED <<fault, conn, calls, jobs>>
    \/ GetVoteStats /\ UNCHANGED <<fault, conn, calls, jobs>>
    \/ GetRankings /\ UNCHANGED <<fault, conn, calls, jobs>>
    \/ GetConcerts /\ UNCHANGED <<fault, conn, calls, jobs>>
    \/ (\E concert_id \in IntInputs : GetConcertById(concert_id))
            /\ UNCHANGED <<fault, conn, calls, jobs>>

\* The handlers with a store whose calls can raise.
FaultNext ==
    \/ \E body \in FaultVoteBodies :
          SubmitVote(body) /\ NoFault(body.json /\ InsertVoteValid(body))
    \/ GetVoteStats /\ NoFault(TRUE)
    \/ GetRankings /\ NoFault(TRUE)
    \/ GetConcerts /\ NoFault(TRUE)
    \/ \E concert_id \in IntInputs : GetConcertById(concert_id) /\ NoFault(TRUE)
    \/ \E body \in FaultVoteBodies, at \in VoteFaults : SubmitVoteFault(body, at)
    \/ \E at \in ReadFaults : GetVoteStatsFault(at)
    \/ \E at \in ReadFaults : GetRankingsFault(at)
    \/ \E at \in ReadFaults : GetConcertsFault(at)
    \/ \E concert_id \in IntInputs, at \in ReadFaults : GetConcertByIdFault(concert_id, at)

Spec == Init /\ [][Next]_vars

FaultSpec == Init /\ [][FaultNext]_vars

\* The callers' steps in any interleaving.
ConcNext ==
    \/ \E p \in Callers, body \in ConcVoteBodies : ConcBegin(p, body)
    \/ \E p \in Callers : ConcInsert(p)
    \/ \E p \in Callers : ConcCommit(p)
    \/ ConcRankings

ConcSpec == Init /\ [][ConcNext]_vars

\* initialize_concerts run again and again, one run after another.
SeedNext ==
    \/ \E p \in Runs : OneAtATime(p) /\ InitCount(p)
    \/ \E p \in Runs : OneAtATime(p) /\ InitInsert(p)
    \/ \E p \in Runs : OneAtATime(p) /\ InitCommit(p)
    \/ \E p \in Runs : OneAtATime(p) /\ InitSkip(p)

SeedSpec == LoadInit /\ [][SeedNext]_vars

\* Servers starting at the same time: the steps of their runs interleave.
SeedRaceNext ==
    \/ \E p \in Runs : InitCount(p)
    \/ \E p \in Runs : InitInsert(p)
    \/ \E p \in Runs : InitCommit(p)
    \/ \E p \in Runs : InitSkip(p)

SeedRaceSpec == LoadInit /\ [][SeedRaceNext]_vars

\* dataUpload.py run again and again, one upload after another.
CsvNext ==
    \/ \E file \in CsvFiles : CsvStart(file)
    \/ \E at \in CsvFaults : CsvInsertConcert(at)
    \/ CsvFinish

CsvSpec == LoadInit /\ [][CsvNext]_vars

\* upload_to_database run again and again, one upload after another.
ScraperNext ==
    \/ \E list \in ScrapedLists : ScraperStart(list)
    \/ \E outcome \in InsertOutcomes : ScraperInsert(outcome)
    \/ ScraperCommit

ScraperSpec == LoadInit /\ [][ScraperNext]_vars

\* ======================================================= the claims
\* The claims about one recordVote call are stated of every step that is a
\* SubmitVote of the request the new response records.
\* A recordVote request whose body parses as InsertVote.
WellFormed(body) ==
    /\ body.json
    /\ body.concertId.kind \in {"int", "numstr"}
    /\ body.voteType.kind = "str"

\* What voteCounts() answers in the current state, and one counter of it
\* (a concert without an entry has every counter at 0).
VoteCounts == StatsJson(Stats)
Counter(counts, concert_id, vote_type) ==
    IF JsonKey(concert_id) \in DOMAIN counts
         /\ vote_type \in DOMAIN counts[JsonKey(concert_id)]
      THEN counts[JsonKey(concert_id)][vote_type]
      ELSE 0

\* C1: a recordVote whose concertId is not in the concerts relation answers
\* 404, and the votes relation and voteCounts() are the same after the call
\* as before it.
C1_UnknownConcertNotFound ==
    [][LET body == response'.req IN
          (response'.op = "vote" /\ WellFormed(body) /\ SubmitVote(body)
              /\ body.concertId.num \notin ConcertIds)
          => (/\ response'.op = "vote"
              /\ response'.status = 404
              /\ votes' = votes
              /\ VoteCounts' = VoteCounts)]_vars

\* C1 witness: a vote for the unknown concert 999 was answered 404 while the
\* votes relation already held rows.
C1_Witness ==
    /\ response.op = "vote"
    /\ response.status = 404
    /\ response.req.concertId = JInt(999)
    /\ response.req.voteType = JStr("excited")
    /\ 999 \notin ConcertIds
    /\ votes # {}

\* C2 as claimed: a recordVote whose voteType is outside {excited,
\* interested} answers invalid-input (400) and inserts nothing, whatever the
\* concertId.
C2_Original ==
    [][LET body == response'.req IN
          (response'.op = "vote" /\ WellFormed(body) /\ SubmitVote(body)
              /\ body.voteType.str \notin {"excited", "interested"})
          => (response'.status = 400 /\ votes' = votes)]_vars

\* C2 as amended: a recordVote whose voteType is outside {excited,
\* interested} never inserts a row; it answers invalid-input (400) when the
\* concertId references an existing concert or is not a number, and
\* not-found (404) when the concertId is a number that references no concert.
C2_InvalidTypeNeverInserts ==
    [][LET body == response'.req IN
          (response'.op = "vote" /\ body.json /\ body.voteType.kind = "str"
              /\ SubmitVote(body)
              /\ body.voteType.str \notin {"excited", "interested"})
          => (/\ votes' = votes
              /\ response'.op = "vote"
              /\ response'.status =
                    IF body.concertId.kind \in {"int", "numstr"}
                         /\ body.concertId.num \notin ConcertIds
                      THEN 404 ELSE 400)]_vars

\* C2 witness: the vote type "loved" for an existing concert was answered
\* 400 while the votes relation already held rows.
C2_Witness ==
    /\ response.op = "vote"
    /\ response.status = 400
    /\ response.req.concertId.kind = "int"
    /\ response.req.concertId.num \in ConcertIds
    /\ response.req.voteType = JStr("loved")
    /\ votes # {}

\* C3: a recordVote answered with success added exactly one row to votes,
\* its id used by no row before, its concert_id and vote_type those of the
\* request, and the record answered is that row.
C3_SuccessInsertsOneRow ==
    [][LET body == response'.req IN
          (response'.op = "vote" /\ response'.status = 200 /\ SubmitVote(body))
          => \E v \in votes' :
                /\ v \notin votes
                /\ votes' = votes \cup {v}
                /\ Cardinality(votes') = Cardinality(votes) + 1
                /\ v.id \notin {w.id : w \in votes}
                /\ v.concert_id = body.concertId.num
                /\ v.vote_type = body.voteType.str
                /\ response'.body.id = v.id
                /\ response'.body.concertId = v.concert_id
                /\ response'.body.voteType = v.vote_type]_vars

\* C3 witness: a successful vote is the last response, the votes relation
\* holds other rows too, and the new row's id differs from its concert_id.
C3_Witness ==
    /\ response.op = "vote"
    /\ response.status = 200
    /\ Cardinality(votes) >= 2
    /\ \E v \in votes :
          /\ v.id = response.body.id
          /\ v.id # v.concert_id
          /\ \A w \in votes : w.id <= v.id

\* C4: a successful recordVote(c, t) raises the counter (c, t) of
\* voteCounts() by exactly 1 and leaves every other counter as it was.
C4_OneCounterGrows ==
    [][LET body == response'.req IN
          (response'.op = "vote" /\ response'.status = 200 /\ SubmitVote(body))
          => \A before \in {VoteCounts} : \A after \in {VoteCounts'} :
                 \A concert_id \in ConcertIds \cup IntInputs :
                 \A vote_type \in {"excited", "interested", "loved"} :
                    Counter(after, concert_id, vote_type) =
                        Counter(before, concert_id, vote_type)
                        + (IF concert_id = body.concertId.num
                                /\ vote_type = body.voteType.str
                             THEN 1 ELSE 0)]_vars

\* C4 witness: after a successful vote voteCounts() holds a nonzero counter
\* other than the one the vote raised, for the same concert.
C4_Witness ==
    /\ response.op = "vote"
    /\ response.status = 200
    /\ \E t \in {"excited", "interested"} :
          /\ t # response.body.voteType
          /\ Counter(VoteCounts, response.body.concertId, t) >= 1

\* The rows of the last computeRankings() answer.
Ranking == response.body.array

\* The votes of one type that reference one concert.
VotesFor(concert_id, vote_type) ==
    Cardinality({v \in votes : v.concert_id = concert_id /\ v.vote_type = vote_type})

\* C5: every row of a computeRankings() answer has excitedVotes and
\* interestedVotes equal to the numbers of votes of that type referencing
\* the concert, totalVotes = excitedVotes + interestedVotes, weightedScore =
\* 2*excitedVotes + interestedVotes, all four natural numbers.
C5_RowArithmetic ==
    response.op = "rankings" =>
        \A k \in DOMAIN Ranking :
            \E r \in {Ranking[k]} :
                /\ r.excitedvotes = VotesFor(r.id, "excited")
                /\ r.interestedvotes = VotesFor(r.id, "interested")
                /\ r.totalvotes = r.excitedvotes + r.interestedvotes
                /\ r.weightedscore = 2 * r.excitedvotes + 1 * r.interestedvotes
                /\ {r.excitedvotes, r.interestedvotes, r.totalvotes, r.weightedscore}
                        \subseteq Nat

\* C5 witness: a ranking row of a concert with an excited and an interested
\* vote.
C5_Witness ==
    /\ response.op = "rankings"
    /\ \E k \in DOMAIN Ranking :
          Ranking[k].excitedvotes >= 1 /\ Ranking[k].interestedvotes >= 1

\* C6: every concert of the store is in a computeRankings() answer exactly
\* once, and a concert without votes has all four values 0.
C6_EveryConcertOnce ==
    response.op = "rankings" =>
        \A c \in concerts :
            /\ Cardinality({k \in DOMAIN Ranking : Ranking[k].id = c.id}) = 1
            /\ (\A v \in votes : v.concert_id # c.id) =>
                  \A k \in DOMAIN Ranking :
                      Ranking[k].id = c.id =>
                          /\ Ranking[k].excitedvotes = 0
                          /\ Ranking[k].interestedvotes = 0
                          /\ Ranking[k].totalvotes = 0
                          /\ Ranking[k].weightedscore = 0

\* C6 witness: a ranking over a concert with votes and a concert without.
C6_Witness ==
    /\ response.op = "rankings"
    /\ \E c \in concerts : \A v \in votes : v.concert_id # c.id
    /\ \E c \in concerts : \E v \in votes : v.concert_id = c.id
    /\ Len(Ranking) = 2

RECURSIVE SumScores(_)
\* The sum of weightedscore over a sequence of ranking rows.
SumScores(rows) ==
    IF rows = <<>> THEN 0 ELSE Head(rows).weightedscore + SumScores(Tail(rows))

\* C7: the weightedScore values of a computeRankings() answer add up to
\* 2 * (number of excited votes) + (number of interested votes) of the votes
\* relation.
C7_ScoreSum ==
    response.op = "rankings" =>
        SumScores(Ranking) =
            2 * Cardinality({v \in votes : v.vote_type = "excited"})
            + 1 * Cardinality({v \in votes : v.vote_type = "interested"})

\* C7 witness: a ranking over votes of both types that reference two
\* concerts.
C7_Witness ==
    /\ response.op = "rankings"
    /\ \E v, w \in votes :
          /\ v.vote_type = "excited"
          /\ w.vote_type = "interested"
          /\ v.concert_id # w.concert_id

\* C8: a computeRankings() answer is in descending weightedScore order, and
\* its i-th row has rank i, so the ranks are 1..N in ascending order.
C8_SortedAndRanked ==
    response.op = "rankings" =>
        /\ \A i, j \in DOMAIN Ranking :
              i < j => Ranking[i].weightedscore >= Ranking[j].weightedscore
        /\ \A i \in DOMAIN Ranking : Ranking[i].rank = i
        /\ {Ranking[i].rank : i \in DOMAIN Ranking} = 1..Cardinality(concerts)

\* C8 witness: a ranking whose first row has a larger score than its second.
C8_Witness ==
    /\ response.op = "rankings"
    /\ Len(Ranking) >= 2
    /\ Ranking[1].weightedscore > Ranking[2].weightedscore

\* C9 as claimed: a computeRankings() call right after another, over the
\* same concerts and votes, answers with the same rows in the same order
\* with the same ranks.
C9_SameOrderOnRepeat ==
    [][(response.op = "rankings" /\ response'.op = "rankings"
            /\ concerts' = concerts /\ votes' = votes)
        => response'.body = response.body]_vars

\* C10: every row of a computeRankings() answer has previousRank equal to
\* its rank and rankChange 0.
C10_NoRankHistory ==
    response.op = "rankings" =>
        \A k \in DOMAIN Ranking :
            /\ Ranking[k].previousRank = Ranking[k].rank
            /\ Ranking[k].rankChange = 0

\* C10 witness: a ranking of two concerts computed after votes were stored.
C10_Witness ==
    /\ response.op = "rankings"
    /\ Len(Ranking) >= 2
    /\ votes # {}
    /\ Ranking[2].previousRank = 2

\* C11: a voteCounts() answer has an entry for exactly the concerts that a
\* vote references; every entry has an excited and an interested counter,
\* each the number of votes of that type for the concert.
C11_StatsEntries ==
    response.op = "vote-stats" =>
        /\ DOMAIN response.body = {JsonKey(v.concert_id) : v \in votes}
        /\ \A concert_id \in {v.concert_id : v \in votes} :
              \E entry \in {response.body[JsonKey(concert_id)]} :
                  /\ {"excited", "interested"} \subseteq DOMAIN entry
                  /\ entry["excited"] = VotesFor(concert_id, "excited")
                  /\ entry["interested"] = VotesFor(concert_id, "interested")

\* C11 witness: a voteCounts() answer where one concert has votes of one type
\* only and another concert of the store has no vote and no entry.
C11_Witness ==
    /\ response.op = "vote-stats"
    /\ \E c \in ConcertIds :
          /\ JsonKey(c) \in DOMAIN response.body
          /\ response.body[JsonKey(c)]["interested"] = 0
          /\ response.body[JsonKey(c)]["excited"] >= 1
    /\ \E c \in ConcertIds : JsonKey(c) \notin DOMAIN response.body

\* The operations that only read.
ReadOps == {"concerts", "concert", "vote-stats", "rankings"}

\* C12: a step that answers listConcerts, getConcert, voteCounts or
\* computeRankings leaves concerts and votes as they were, and a step that
\* answers recordVote leaves concerts as it was.
C12_OnlyRecordVoteMutates ==
    [][/\ response'.op \in ReadOps => (concerts' = concerts /\ votes' = votes)
       /\ response'.op = "vote" => concerts' = concerts]_vars

\* C12 witness: a voteCounts() answer given while the votes relation holds
\* rows.
C12_Witness ==
    /\ response.op = "vote-stats"
    /\ Cardinality(votes) >= 2
    /\ concerts # {}

\* C13: every step keeps every row of votes as it is, so no per-concert,
\* per-type count of votes ever decreases.
C13_VotesAppendOnly ==
    [][/\ \A v \in votes : v \in votes'
       /\ \A concert_id \in ConcertIds : \A vote_type \in {"excited", "interested"} :
             VotesFor(concert_id, vote_type)' >= VotesFor(concert_id, vote_type)]_vars

\* C13 witness: a second vote of the same concert and type was stored beside
\* the first.
C13_Witness ==
    /\ response.op = "vote"
    /\ response.status = 200
    /\ \E v, w \in votes :
          /\ v.id < w.id
          /\ w.id = response.body.id
          /\ v.concert_id = w.concert_id
          /\ v.vote_type = w.vote_type
          /\ v.created_at < w.created_at

\* C14: every row of votes references the id of a row of concerts and has
\* the type excited or interested.
C14_ForeignKey ==
    \A v \in votes :
        /\ v.concert_id \in ConcertIds
        /\ v.vote_type \in {"excited", "interested"}

\* C14 witness: votes holds an excited and an interested row while an
\* unknown concert was just refused.
C14_Witness ==
    /\ \E v, w \in votes : v.vote_type = "excited" /\ w.vote_type = "interested"
    /\ response.op = "vote"
    /\ response.status = 404

\* C15: getConcert(id) answers with the row of concerts whose id is id when
\* there is one, and with 404 when there is none.
C15_GetConcert ==
    response.op = "concert" =>
        \E id \in {response.req.concertId.num} :
            IF id \in ConcertIds
              THEN /\ response.status = 200
                   /\ response.body.id = id
                   /\ \E c \in concerts :
                         /\ c.id = id
                         /\ response.body.title = c.title
                         /\ response.body.venue = c.venue
              ELSE /\ response.status = 404
                   /\ response.body = [error |-> "Concert not found"]

\* C15 witness: concert 2 was asked for and answered from a store that holds
\* two concerts.
C15_Witness ==
    /\ response.op = "concert"
    /\ response.status = 200
    /\ response.req.concertId.num = 2
    /\ Cardinality(concerts) = 2

\* C16 as claimed: a listConcerts() answer holds every row of concerts
\* exactly once, each with exactly the fields id, title, date, venue, price,
\* organizer, description, imageUrl.
C16_ListConcertsFields ==
    response.op = "concerts" =>
        /\ \A c \in concerts :
              Cardinality({k \in DOMAIN response.body.array :
                              response.body.array[k].id = c.id}) = 1
        /\ Len(response.body.array) = Cardinality(concerts)
        /\ \A k \in DOMAIN response.body.array :
              DOMAIN response.body.array[k] =
                  {"id", "title", "date", "venue", "price", "organizer",
                   "description", "imageUrl"}

\* C17 as claimed: whenever a request has answered, the connection it opened
\* has been closed, on every path.
C17_ConnectionReleased ==
    conn.opened => conn.closed

\* C18: a computeRankings() call during which a storage call raised answers
\* with the failure status and an error body, and a computeRankings() answer
\* with the success status lists every concert of the store.
C18_RankingFailureReported ==
    response.op = "rankings" =>
        /\ fault # "none" =>
              /\ response.status = 500
              /\ DOMAIN response.body = {"error"}
        /\ response.status = 200 =>
              /\ fault = "none"
              /\ "array" \in DOMAIN response.body
              /\ Len(response.body.array) = Cardinality(concerts)

\* C18 witness: the query of computeRankings() raised while the store held
\* concerts and votes.
C18_Witness ==
    /\ response.op = "rankings"
    /\ fault = "execute"
    /\ response.status = 500
    /\ votes # {}

\* C19 as claimed: a recordVote whose input is malformed (no body, concertId
\* missing or not a number, voteType missing) answers invalid-input (400)
\* and inserts no row.
C19_MalformedIsInvalidInput ==
    [][LET body == response'.req IN
          (response'.op = "vote" /\ ~(body.json /\ InsertVoteValid(body))
              /\ SubmitVote(body))
          => (response'.status = 400 /\ votes' = votes)]_vars

\* The callers whose recordVote returned success.
Succeeded == {p \in Callers : calls[p].pc = "done" /\ calls[p].status = 200}

\* C20: in every interleaving, the votes relation holds exactly one row per
\* recordVote call that returned success, the rows have pairwise distinct
\* ids, and each per-concert, per-type count is the number of successful
\* calls for that concert and type.
C20_NoVoteLostOrDoubled ==
    /\ Cardinality(votes) = Cardinality(Succeeded)
    /\ \A v, w \in votes : v # w => v.id # w.id
    /\ \A concert_id \in ConcertIds : \A vote_type \in {"excited", "interested"} :
          VotesFor(concert_id, vote_type) =
              Cardinality({p \in Succeeded :
                              /\ calls[p].concertId = concert_id
                              /\ calls[p].voteType = vote_type})

\* C20 witness: every caller returned success for the same concert and type,
\* and the caller that inserted first committed last.
C20_Witness ==
    /\ Succeeded = Callers
    /\ \A p, q \in Callers :
          calls[p].concertId = calls[q].concertId /\ calls[p].voteType = calls[q].voteType
    /\ \E p, q \in Callers : calls[p].row.id > calls[q].row.id

\* The votes of one type for one concert among the rows S.
CountIn(S, concert_id, vote_type) ==
    Cardinality({v \in S : v.concert_id = concert_id /\ v.vote_type = vote_type})

\* C21: a computeRankings() answered while recordVote calls are in flight
\* reflects each in-flight vote in full or not at all: every row has
\* totalVotes = excitedVotes + interestedVotes and weightedScore =
\* 2*excitedVotes + interestedVotes, and its counts are the counts of the
\* committed votes with or without the votes in flight.
C21_RankingSeesWholeVotes ==
    [][(calls' = calls /\ response'.op = "rankings")
        => \A k \in DOMAIN response'.body.array :
             \E r \in {response'.body.array[k]} :
                /\ r.totalvotes = r.excitedvotes + r.interestedvotes
                /\ r.weightedscore = 2 * r.excitedvotes + r.interestedvotes
                /\ \E S \in SUBSET Uncommitted :
                      /\ r.excitedvotes = CountIn(votes \cup S, r.id, "excited")
                      /\ r.interestedvotes = CountIn(votes \cup S, r.id, "interested")]_vars

\* C21 witness: a ranking was answered while one vote for a concert was
\* committed and another vote for the same concert was inserted and not yet
\* committed.
C21_Witness ==
    /\ response.op = "rankings"
    /\ \E p, q \in Callers :
          /\ calls[p].pc = "commit"
          /\ calls[q].pc = "done" /\ calls[q].status = 200
          /\ calls[p].concertId = calls[q].concertId
          /\ \E k \in DOMAIN Ranking :
                Ranking[k].id = calls[p].concertId /\ Ranking[k].totalvotes = 1

\* C22: one recordVote request attempts each storage statement at most once:
\* it adds at most one row to votes and draws at most one id; a not-found or
\* invalid-input answer comes with no write at all; and a request during
\* which a storage call raised answers with the failure status.
C22_NoRetry ==
    [][response'.op = "vote"
        => /\ votes \subseteq votes'
           /\ Cardinality(votes') <= Cardinality(votes) + 1
           /\ votes_id_seq' \in {votes_id_seq, votes_id_seq + 1}
           /\ response'.status \in {400, 404}
                 => (votes' = votes /\ votes_id_seq' = votes_id_seq)
           /\ fault' # "none" => response'.status = 500
           /\ response'.status = 200 => fault' = "none"]_vars

\* C22 witness: the INSERT of a vote raised after an earlier vote was stored,
\* the request answered 500 and the id it drew was not used by a second
\* attempt.
C22_Witness ==
    /\ response.op = "vote"
    /\ response.status = 500
    /\ fault = "insert"
    /\ Cardinality(votes) = 1
    /\ votes_id_seq = 2

\* The four numbers computeRankings() gives for concert c in the current
\* state.
Numbers(c) ==
    LET r == RankingRow(c)
    IN  <<r.excitedvotes, r.interestedvotes, r.totalvotes, r.weightedscore>>

\* C23: a successful excited vote for concert c raises the weightedScore of
\* c in the next computeRankings() by exactly 2, a successful interested vote
\* by exactly 1; c's totalVotes rises by exactly 1; and the four numbers of
\* every other concert are unchanged.
C23_VoteMovesOneScore ==
    [][LET body == response'.req IN
          (response'.op = "vote" /\ response'.status = 200 /\ SubmitVote(body))
          => \A c \in concerts :
               \A before \in {Numbers(c)} : \A after \in {Numbers(c)'} :
                  IF c.id = body.concertId.num
                    THEN /\ after[4] = before[4]
                              + (IF body.voteType.str = "excited" THEN 2 ELSE 1)
                         /\ after[3] = before[3] + 1
                    ELSE after = before]_vars

\* C23 witness: an interested vote for one concert succeeded while the other
\* concert of the store holds an excited vote.
C23_Witness ==
    /\ response.op = "vote"
    /\ response.status = 200
    /\ response.body.voteType = "interested"
    /\ \E v \in votes :
          /\ v.concert_id # response.body.concertId
          /\ v.vote_type = "excited"
    /\ Cardinality(concerts) = 2

\* C24: recordVote checks the concert before the vote type: a request whose
\* concertId references no concert and whose voteType is outside {excited,
\* interested} is answered not-found (404), and the invalid-vote-type answer
\* (400, "Invalid vote type") is given only when the concert exists.
C24_ConcertCheckedFirst ==
    (response.op = "vote" /\ WellFormed(response.req)) =>
        /\ (/\ response.req.concertId.num \notin ConcertIds
            /\ response.req.voteType.str \notin {"excited", "interested"})
              => (/\ response.status = 404
                  /\ response.body = [error |-> "Concert not found"])
        /\ response.body = [error |-> "Invalid vote type"]
              => (/\ response.status = 400
                  /\ response.req.concertId.num \in ConcertIds)

\* C24 witness: concertId 999, given as a string of digits, with the vote
\* type "loved" was answered 404 by a store that holds two concerts.
C24_Witness ==
    /\ response.op = "vote"
    /\ response.req.concertId = JNumStr(999)
    /\ response.req.voteType = JStr("loved")
    /\ response.status = 404
    /\ Cardinality(concerts) = 2

\* C25: voteCounts() and computeRankings() agree in every state: for each
\* concert that voteCounts() lists, its excited and interested counters equal
\* the excitedVotes and interestedVotes of the concert's row in
\* computeRankings(), and every concert that voteCounts() omits has
\* totalVotes = 0 in computeRankings().
C25_StatsAgreeWithRankings ==
    \A counts \in {VoteCounts} :
        /\ \A key \in DOMAIN counts :
              \E c \in concerts :
                  /\ JsonKey(c.id) = key
                  /\ \A r \in {RankingRow(c)} :
                        /\ r \in RankingRows
                        /\ counts[key]["excited"] = r.excitedvotes
                        /\ counts[key]["interested"] = r.interestedvotes
        /\ \A c \in concerts :
              JsonKey(c.id) \notin DOMAIN counts => RankingRow(c).totalvotes = 0

\* C25 witness: voteCounts() lists one concert with an excited and an
\* interested vote and omits the other concert of the store.
C25_Witness ==
    /\ \E c \in concerts :
          /\ JsonKey(c.id) \in DOMAIN VoteCounts
          /\ VoteCounts[JsonKey(c.id)]["excited"] = 1
          /\ VoteCounts[JsonKey(c.id)]["interested"] = 1
    /\ \E c \in concerts : JsonKey(c.id) \notin DOMAIN VoteCounts

\* C26 as claimed: recordVote changes the votes relation if and only if it
\* answers with success; whenever it answers 400, 404 or 500, a failure
\* raised after the INSERT included, no new row is stored.
C26_StoredIffSuccess ==
    [][response'.op = "vote" => (votes' # votes <=> response'.status = 200)]_vars

\* The rows of concerts that hold entry s of concert_data.
SeedCopies(s) == Cardinality({c \in concerts : c.title = SeedRow(0, s).title})

\* A run has found the relation empty.
SomeRunCountedZero ==
    \E p \in Runs : boot[p].pc \in {"counted", "inserted", "done"} /\ boot[p].count = 0

\* C27: with initialize_concerts run one run after another, no seed concert
\* is ever stored twice; once a run that found the relation empty has
\* finished, each of the six seed concerts is stored exactly once; and when
\* no run found the relation empty, no seed concert is stored.
C27_SeededOnce ==
    /\ \A s \in Seeds : SeedCopies(s) <= 1
    /\ (\E p \in Runs : boot[p].pc = "done" /\ boot[p].count = 0)
          => \A s \in Seeds : SeedCopies(s) = 1
    /\ ~SomeRunCountedZero => \A s \in Seeds : SeedCopies(s) = 0

\* C27 witness: every run has finished, the first of them seeded the empty
\* relation and the later ones counted six rows and inserted nothing.
C27_Witness ==
    /\ \A p \in Runs : boot[p].pc = "done"
    /\ \E p \in Runs :
          /\ boot[p].count = 0
          /\ \A q \in Runs \ {p} : boot[q].count = NumSeedConcerts
    /\ Cardinality(concerts) = NumSeedConcerts

\* C28 as claimed: when servers start at the same time against the empty
\* relation, their runs cannot both insert the seed data: once all have
\* finished the relation holds six seed concerts, not twelve.
C28_NoDoubleSeeding ==
    (\A p \in Runs : boot[p].pc = "done")
        => Cardinality({c \in concerts : \E s \in Seeds : c.title = SeedRow(0, s).title})
              <= NumSeedConcerts

C30_ReportedIsStored ==
    scraper.pc = "done" =>
        scraper.inserted_count = Cardinality(concerts) - scraper.before

====
